---- MODULE Spec2Model ----
(***************************************************************************)
(* Model of the expense ledger of src/script.js: the `state` object (the   *)
(* in-memory expenses, the current filter), the localStorage slot          *)
(* "expenses" it persists to, and the queries derived from it.             *)
(*                                                                         *)
(* Amounts are drawn from integers, on which the IEEE-754 additions of     *)
(* getTotal / getCategoryStats are exact; rounding drift of fractional     *)
(* amounts is outside this model.                                          *)
(***************************************************************************)
EXTENDS Integers, Sequences, FiniteSets, TLC

(* ------------------------------ bounds --------------------------------- *)

\* Number of add/remove calls followed within one page session.
MaxOps == 3

(* ------------------------------ domains -------------------------------- *)

\* The category enumeration of the application (the keys of categoryEmojis).
Categories == {"Food", "Travel", "Shopping", "Bills", "Others"}

\* Ids a caller (or generateUID) may hand to the ledger; two ids are enough
\* to have entries that share an id and entries that do not.
Ids == {"id1", "id2"}

\* amount / category / timestamp of the expense objects handed to
\* state.addExpense: valid ones, and ones with amount <= 0 or with a
\* category outside Categories.
Shapes ==
    { [amount |-> 50, category |-> "Food",   timestamp |-> "t1"],
      [amount |-> 30, category |-> "Travel", timestamp |-> "t2"],
      [amount |-> 0,  category |-> "Travel", timestamp |-> "t1"],
      [amount |-> 20, category |-> "Crypto", timestamp |-> "t2"] }

ExpenseInputs ==
    { [id |-> i, amount |-> sh.amount, category |-> sh.category,
       timestamp |-> sh.timestamp] : i \in Ids, sh \in Shapes }

\* Values handed to state.setFilter: the sentinel, a category with entries,
\* and a value that is neither.
FilterInputs == {"All", "Food", "Crypto"}

(* ------------------------- JSON text (tokens) -------------------------- *)

\* A JSON text is a sequence of tokens.
Punct(p) == [t |-> "punct", s |-> p, n |-> 0]
Key(k)   == [t |-> "key", s |-> k, n |-> 0]
Str(v)   == [t |-> "str", s |-> v, n |-> 0]
Num(v)   == [t |-> "num", s |-> "", n |-> v]

\* JSON.stringify of one expense object: its own properties in creation
\* order (id, amount, category, timestamp).
StringifyExpense(e) ==
    << Punct("{"), Key("id"), Str(e.id), Key("amount"), Num(e.amount),
       Key("category"), Str(e.category), Key("timestamp"), Str(e.timestamp),
       Punct("}") >>

RECURSIVE StringifyElements(_)
StringifyElements(es) ==
    IF es = << >> THEN << >>
    ELSE StringifyExpense(Head(es)) \o StringifyElements(Tail(es))

\* JSON.stringify(this.expenses)
JSONstringify(es) == <<Punct("[")>> \o StringifyElements(es) \o <<Punct("]")>>

\* Number of tokens of one serialized expense object.
EntryLen == Len(StringifyExpense(CHOOSE e \in ExpenseInputs : TRUE))

\* One object of the array, read back from tokens i .. i+EntryLen-1.
IsExpenseAt(text, i) ==
    /\ i + EntryLen - 1 <= Len(text)
    /\ text[i] = Punct("{")
    /\ text[i + 1] = Key("id")        /\ text[i + 2].t = "str"
    /\ text[i + 3] = Key("amount")    /\ text[i + 4].t = "num"
    /\ text[i + 5] = Key("category")  /\ text[i + 6].t = "str"
    /\ text[i + 7] = Key("timestamp") /\ text[i + 8].t = "str"
    /\ text[i + 9] = Punct("}")

\* A reader that loses the timestamp.
ExpenseAtNoTimestamp(text, i) ==
    [id |-> text[i + 2].s, amount |-> text[i + 4].n,
     category |-> text[i + 6].s, timestamp |-> ""]

ExpenseAt(text, i) ==
    [id |-> text[i + 2].s, amount |-> text[i + 4].n,
     category |-> text[i + 6].s, timestamp |-> text[i + 8].s]

RECURSIVE ParseElements(_, _)
\* The elements from token i up to the closing bracket; the result is
\* [ok, value], ok = FALSE standing for the SyntaxError JSON.parse throws.
ParseElements(text, i) ==
    IF i = Len(text) /\ text[i] = Punct("]")
    THEN [ok |-> TRUE, value |-> << >>]
    ELSE IF IsExpenseAt(text, i)
    THEN LET rest == ParseElements(text, i + EntryLen)
         IN  [ok |-> rest.ok,
              value |-> IF rest.ok THEN <<ExpenseAt(text, i)>> \o rest.value
                        ELSE << >>]
    ELSE [ok |-> FALSE, value |-> << >>]

\* The literal null of a JSON text.
Lit(v) == [t |-> "lit", s |-> v, n |-> 0]

\* typeof-like kind of the value JSON.parse returns that is no array: an
\* empty object, a number, null; "none" for every other text (JSON.parse
\* returns an array or throws).
ScalarType(text) ==
    IF text = <<Punct("{"), Punct("}")>> THEN "object"
    ELSE IF Len(text) = 1 /\ text[1].t = "num" THEN "number"
    ELSE IF text = <<Lit("null")>> THEN "null"
    ELSE "none"

\* JSON.parse(stored), for the texts that hold an array of expense objects:
\* ok = FALSE for every other text (ScalarType tells whether JSON.parse
\* throws on it or returns a value that is no array).
JSONparse(text) ==
    IF Len(text) >= 2 /\ text[1] = Punct("[")
    THEN ParseElements(text, 2)
    ELSE [ok |-> FALSE, value |-> << >>]

(* ------------------------------- state --------------------------------- *)

VARIABLES
    expenses,       \* state.expenses
    currentFilter,  \* state.currentFilter
    localStorage,   \* the slot "expenses" of localStorage
    last,           \* the call made last: its name, argument and outcome
    log,            \* the add / remove calls made since the page was loaded
    expensesType,   \* what state.expenses is: "array", or the kind of the
                    \* non-array value loadFromStorage returned
    phase,          \* initializeApp: "loading", "ready" or "crashed"
    totalAmount,    \* elements.totalAmount.textContent, in hundredths
    expenseCount,   \* the number shown in elements.expenseCount
    expensesList,   \* data-id of the delete buttons renderExpenses made
    timers,         \* the interval timers not cleared, in firing order
    now,            \* Date.now()
    events          \* UI events handled since the page was loaded

ledgerVars == <<expenses, currentFilter, localStorage, last, log>>

uiVars == <<expensesType, phase, totalAmount, expenseCount, expensesList,
            timers, now, events>>

vars == <<expenses, currentFilter, localStorage, last, log, expensesType,
          phase, totalAmount, expenseCount, expensesList, timers, now,
          events>>

\* The slot: absent (getItem returns null) or holding a text.
Null == [present |-> FALSE, text |-> << >>]
Item(text) == [present |-> TRUE, text |-> text]

\* The `state` object as one value, so that its methods are operators.
State == [expenses |-> expenses, currentFilter |-> currentFilter,
          localStorage |-> localStorage, expensesType |-> expensesType]

(* ------------------------ methods of `state` ---------------------------- *)

\* A save that writes what the filter shows.
saveToStorageVisible(s, writeOk) ==
    IF writeOk
    THEN [s EXCEPT !.localStorage =
            Item(JSONstringify(
                IF s.currentFilter = "All" THEN s.expenses
                ELSE SelectSeq(s.expenses,
                       LAMBDA expense : expense.category = s.currentFilter)))]
    ELSE s

\* saveToStorage(): setItem either stores the text or throws (quota
\* exceeded, storage disabled); the throw is caught and logged.
saveToStorage(s, writeOk) ==
    IF writeOk
    THEN [s EXCEPT !.localStorage = Item(JSONstringify(s.expenses))]
    ELSE s

\* A load with the branches of the conditional exchanged.
loadFromStorageInverted(s) ==
    LET stored == s.localStorage
    IN  IF stored.present /\ stored.text # << >>
        THEN << >>
        ELSE LET parsed == JSONparse(stored.text)
             IN  IF parsed.ok THEN parsed.value ELSE << >>

\* loadFromStorage(): null and the empty string are falsy; a SyntaxError
\* of JSON.parse is caught.
loadFromStorage(s) ==
    LET stored == s.localStorage
    IN  IF stored.present /\ stored.text # << >>
        THEN LET parsed == JSONparse(stored.text)
             IN  IF parsed.ok THEN parsed.value ELSE << >>
        ELSE << >>

\* What loadFromStorage() returns is an array, unless the text parses to
\* a value that is none (JSON.parse does not throw on it).
loadFromStorageType(s) ==
    LET stored == s.localStorage
        type == ScalarType(stored.text)
    IN  IF stored.present /\ stored.text # << >> /\ type # "none"
        THEN type
        ELSE "array"

init(s) == [s EXCEPT !.expenses = loadFromStorage(s),
                     !.expensesType = loadFromStorageType(s)]

\* A ledger that puts the new expense first instead of last.
addExpenseUnshift(s, expense, writeOk) ==
    saveToStorage([s EXCEPT !.expenses = <<expense>> \o @], writeOk)

\* A ledger that keeps the new expense only when it could be written.
addExpenseOnlyIfWritten(s, expense, writeOk) ==
    IF writeOk
    THEN saveToStorage([s EXCEPT !.expenses = Append(@, expense)], writeOk)
    ELSE s

addExpense(s, expense, writeOk) ==
    saveToStorage([s EXCEPT !.expenses = Append(@, expense)], writeOk)

KeepOthers(es, id) == SelectSeq(es, LAMBDA expense : expense.id # id)

\* A removal by index, es.splice(es.findIndex(...), 1): for an id no
\* expense has the index is -1 and splice takes out the last expense.
removeExpenseSplice(s, id, writeOk) ==
    LET es == s.expenses
        hits == {i \in 1 .. Len(es) : es[i].id = id}
        at == IF hits = {} THEN Len(es)
              ELSE CHOOSE i \in hits : \A j \in hits : i <= j
    IN  saveToStorage(
            [s EXCEPT !.expenses =
                IF es = << >> THEN es
                ELSE SubSeq(es, 1, at - 1) \o SubSeq(es, at + 1, Len(es))],
            writeOk)

removeExpense(s, id, writeOk) ==
    saveToStorage([s EXCEPT !.expenses = KeepOthers(@, id)], writeOk)

\* A setFilter that persists as the mutating methods do.
setFilterAndSave(s, category) ==
    saveToStorage([s EXCEPT !.currentFilter = category], TRUE)

setFilter(s, category) == [s EXCEPT !.currentFilter = category]

\* A filter without the 'All' case.
getFilteredExpensesNoAll(s) ==
    SelectSeq(s.expenses, LAMBDA expense : expense.category = s.currentFilter)

getFilteredExpenses(s) ==
    IF s.currentFilter = "All"
    THEN s.expenses
    ELSE SelectSeq(s.expenses,
                   LAMBDA expense : expense.category = s.currentFilter)

RECURSIVE Reduce(_, _)
\* es.reduce((sum, expense) => sum + expense.amount, acc), left to right
Reduce(es, acc) ==
    IF es = << >> THEN acc ELSE Reduce(Tail(es), acc + Head(es).amount)

\* A total that ignores the filter.
getTotalOfAll(s) == Reduce(s.expenses, 0)

getTotal(s) == Reduce(getFilteredExpenses(s), 0)

RECURSIVE StatsLoop(_, _)
\* the forEach of getCategoryStats: stats is a function from the categories
\* seen so far to their {count, total}
StatsLoop(es, stats) ==
    IF es = << >> THEN stats
    ELSE LET expense == Head(es)
             c == expense.category
             cur == IF c \in DOMAIN stats THEN stats[c]
                    ELSE [count |-> 0, total |-> 0]
             upd == [count |-> cur.count + 1,
                     total |-> cur.total + expense.amount]
         IN  StatsLoop(Tail(es),
                       [k \in DOMAIN stats \cup {c} |->
                           IF k = c THEN upd ELSE stats[k]])

EmptyStats == [k \in {} |-> [count |-> 0, total |-> 0]]

\* Statistics over the visible expenses only.
getCategoryStatsOfVisible(s) == StatsLoop(getFilteredExpenses(s), EmptyStats)

getCategoryStats(s) == StatsLoop(s.expenses, EmptyStats)

(* ------------------------------ actions --------------------------------- *)

\* What a call hands back: every method of `state` returns normally.
Called(op, arg, wrote, ret) ==
    [op |-> op, arg |-> arg, wrote |-> wrote, ret |-> ret, thrown |-> "none"]

Undefined == "undefined"

SetState(s) ==
    /\ expenses' = s.expenses
    /\ currentFilter' = s.currentFilter
    /\ localStorage' = s.localStorage

\* Entries of the log: an add with the expense added, a remove with the id.
AddOf(e) == [op |-> "add", id |-> e.id, expense |-> e]
RemoveOf(id) ==
    [op |-> "remove", id |-> id,
     expense |-> [id |-> id, amount |-> 0, category |-> "", timestamp |-> ""]]

\* The page as Spec sees it: loaded, nothing animated.
UiIdle ==
    /\ expensesType = "array"
    /\ phase = "ready"
    /\ totalAmount = 0
    /\ expenseCount = 0
    /\ expensesList = << >>
    /\ timers = << >>
    /\ now = 0
    /\ events = 0

Init ==
    /\ expenses = << >>
    /\ currentFilter = "All"
    /\ localStorage = Null
    /\ last = Called("init", Undefined, FALSE, Undefined)
    /\ log = << >>
    /\ UiIdle

AddExpense ==
    \E expense \in ExpenseInputs, writeOk \in BOOLEAN :
        /\ Len(log) < MaxOps
        /\ SetState(addExpense(State, expense, writeOk))
        /\ last' = Called("addExpense", expense, writeOk, Undefined)
        /\ log' = Append(log, AddOf(expense))

RemoveExpense ==
    \E id \in Ids, writeOk \in BOOLEAN :
        /\ Len(log) < MaxOps
        /\ SetState(removeExpense(State, id, writeOk))
        /\ last' = Called("removeExpense", id, writeOk, Undefined)
        /\ log' = Append(log, RemoveOf(id))

SetFilter ==
    \E category \in FilterInputs :
        /\ SetState(setFilter(State, category))
        /\ last' = Called("setFilter", category, FALSE, Undefined)
        /\ UNCHANGED log

GetFilteredExpenses ==
    /\ last' = Called("getFilteredExpenses", Undefined, FALSE,
                      getFilteredExpenses(State))
    /\ UNCHANGED <<expenses, currentFilter, localStorage, log>>

GetTotal ==
    /\ last' = Called("getTotal", Undefined, FALSE, getTotal(State))
    /\ UNCHANGED <<expenses, currentFilter, localStorage, log>>

GetCategoryStats ==
    /\ last' = Called("getCategoryStats", Undefined, FALSE,
                      getCategoryStats(State))
    /\ UNCHANGED <<expenses, currentFilter, localStorage, log>>

\* The page is loaded again: the script builds `state` anew (expenses [],
\* currentFilter 'All') and initializeApp calls state.init().
PageLoad ==
    LET fresh == [expenses |-> << >>, currentFilter |-> "All",
                  localStorage |-> localStorage, expensesType |-> "array"]
        s == init(fresh)
    IN  /\ SetState(s)
        /\ last' = Called("init", Undefined, FALSE, Undefined)
        /\ log' = [i \in 1 .. Len(s.expenses) |-> AddOf(s.expenses[i])]

\* The calls on `state`; the page around it is left alone.
Next ==
    \/ AddExpense /\ UNCHANGED uiVars
    \/ RemoveExpense /\ UNCHANGED uiVars
    \/ SetFilter /\ UNCHANGED uiVars
    \/ GetFilteredExpenses /\ UNCHANGED uiVars
    \/ GetTotal /\ UNCHANGED uiVars
    \/ GetCategoryStats /\ UNCHANGED uiVars
    \/ PageLoad /\ UNCHANGED uiVars

Spec == Init /\ [][Next]_vars

(* ------------------------------ the page -------------------------------- *)

\* UI events followed within one page session: while the interval timers
\* fire in between, and when no timer comes due between them.
MaxAnimatedEvents == 1
MaxEvents == 2

\* Milliseconds the clock may reach.
MaxNow == 2

\* animateValue(element, start, end, 600) and its setInterval(..., 16)
Duration == 600
Interval == 16

\* Numbers of the animation are counted in units of 1/75 of a hundredth:
\* with start a number of hundredths (a parsed toFixed(2) text) and end a
\* whole amount, range / (duration / 16) is a whole number of units.
UnitsPerCent == Duration \div 8

Units(amount) == amount * 100 * UnitsPerCent

\* x.toFixed(2), as the number of hundredths nearest to x (UnitsPerCent is
\* odd: no ties).
toFixed2(x) == (x + UnitsPerCent \div 2) \div UnitsPerCent

\* parseFloat(element.textContent) || 0 of a text toFixed(2) wrote
parseFloatText(cents) == cents * UnitsPerCent

\* What the form fields may hold, and parseFloat of the amount field.
AmountInputs == {"", "0", "50"}
CategoryInputs == {"", "Food", "Travel"}

parseFloatInput(text) ==
    CASE text = "0" -> 0
      [] text = "50" -> 50

\* The filter dropdown's options used here.
FilterOptions == {"All", "Food"}

\* Math.random().toString(36).substr(2, 9)
RandomStrings == {"a", "b"}

\* What the slot may hold when the page is loaded: nothing, the empty
\* string, what an earlier session saved, a text cut short, and JSON texts
\* of values that are no arrays.
Earlier == [id |-> <<0, "a">>, amount |-> 50, category |-> "Food",
            timestamp |-> 0]

CutShort(text) == SubSeq(text, 1, Len(text) - 1)

SlotInputs ==
    { Null,
      Item(<< >>),
      Item(JSONstringify(<< >>)),
      Item(JSONstringify(<<Earlier>>)),
      Item(CutShort(JSONstringify(<<Earlier>>))),
      Item(<<Punct("{"), Punct("}")>>),
      Item(<<Lit("null")>>) }

validateForm(amountInput, categoryInput) ==
    /\ ~(amountInput = "" \/ parseFloatInput(amountInput) <= 0)
    /\ categoryInput # ""

\* generateUID(): `${Date.now()}-${random}`
generateUID(ms, random) == <<ms, random>>

\* animateValue: the interval timer it starts, as the variables its
\* callback closes over.
animateValue(start, end) ==
    [current |-> start, end |-> end,
     increment |-> ((end - start) * Interval) \div Duration]

\* A callback that asks the ledger for the total anew on every run.
CallbackLive(t) ==
    LET end == Units(getTotal(State))
        stepped == t.current + t.increment
        done == \/ (t.increment > 0 /\ stepped >= end)
                \/ (t.increment < 0 /\ stepped <= end)
        current == IF done THEN end ELSE stepped
    IN  [timer |-> [t EXCEPT !.current = current, !.end = end],
         cleared |-> done,
         text |-> toFixed2(current)]

\* One run of the interval callback of timer t: the timer afterwards,
\* whether it cleared itself, and the text it wrote.
Callback(t) ==
    LET stepped == t.current + t.increment
        done == \/ (t.increment > 0 /\ stepped >= t.end)
                \/ (t.increment < 0 /\ stepped <= t.end)
        current == IF done THEN t.end ELSE stepped
    IN  [timer |-> [t EXCEPT !.current = current],
         cleared |-> done,
         text |-> toFixed2(current)]

\* renderUI() on ledger state s: renderExpenses, then updateTotal, which
\* starts one more interval timer.
renderUI(s) ==
    /\ expensesList' =
          [i \in 1 .. Len(getFilteredExpenses(s)) |->
              getFilteredExpenses(s)[i].id]
    /\ expenseCount' = Len(getFilteredExpenses(s))
    /\ timers' = Append(timers,
          animateValue(parseFloatText(totalAmount), Units(getTotal(s))))
    /\ UNCHANGED totalAmount

InitUI ==
    /\ expenses = << >>
    /\ currentFilter = "All"
    /\ localStorage \in SlotInputs
    /\ last = Called("load", Undefined, FALSE, Undefined)
    /\ log = << >>
    /\ expensesType = "array"
    /\ phase = "loading"
    /\ totalAmount = 0
    /\ expenseCount = 0
    /\ expensesList = << >>
    /\ timers = << >>
    /\ now = 1
    /\ events = 0

\* initializeApp(): state.init(), then renderUI(), then the listeners.
\* renderExpenses throws a TypeError on expenses that are no array (no
\* length, no map), and the listeners are never attached.
InitializeApp ==
    /\ phase = "loading"
    /\ LET s == init(State)
       IN  /\ SetState(s)
           /\ expensesType' = s.expensesType
           /\ IF s.expensesType = "array"
              THEN /\ renderUI(s)
                   /\ phase' = "ready"
                   /\ last' = Called("initializeApp", Undefined, FALSE,
                                     Undefined)
              ELSE /\ phase' = "crashed"
                   /\ last' = [Called("initializeApp", Undefined, FALSE,
                                      Undefined)
                                 EXCEPT !.thrown = "TypeError"]
                   /\ UNCHANGED <<totalAmount, expenseCount, expensesList,
                                  timers>>
    /\ UNCHANGED <<log, now, events>>

\* handleAddExpense(e): the submit event of the form.
HandleAddExpense ==
    \E amountInput \in AmountInputs, categoryInput \in CategoryInputs,
       ms \in now .. MaxNow, random \in RandomStrings, writeOk \in BOOLEAN :
        /\ phase = "ready"
        /\ events' = events + 1
        /\ IF validateForm(amountInput, categoryInput)
           THEN LET expense == [id |-> generateUID(ms, random),
                                amount |-> parseFloatInput(amountInput),
                                category |-> categoryInput,
                                timestamp |-> ms]
                    s == addExpense(State, expense, writeOk)
                IN  /\ SetState(s)
                    /\ renderUI(s)
                    /\ now' = ms
                    /\ last' = Called("handleAddExpense", expense, writeOk,
                                      Undefined)
           ELSE /\ last' = Called("handleAddExpense", Undefined, FALSE,
                                  Undefined)
                /\ UNCHANGED <<expenses, currentFilter, localStorage, now,
                               totalAmount, expenseCount, expensesList,
                               timers>>
        /\ UNCHANGED <<log, expensesType, phase>>

\* handleDeleteExpense(e): a click on one of the delete buttons, confirmed
\* or not.
HandleDeleteExpense ==
    \E i \in 1 .. Len(expensesList), confirmed \in BOOLEAN,
       writeOk \in BOOLEAN :
        /\ phase = "ready"
        /\ events' = events + 1
        /\ IF confirmed
           THEN LET s == removeExpense(State, expensesList[i], writeOk)
                IN  /\ SetState(s)
                    /\ renderUI(s)
                    /\ last' = Called("handleDeleteExpense", expensesList[i],
                                      writeOk, Undefined)
           ELSE /\ last' = Called("handleDeleteExpense", Undefined, FALSE,
                                  Undefined)
                /\ UNCHANGED <<expenses, currentFilter, localStorage,
                               totalAmount, expenseCount, expensesList,
                               timers>>
        /\ UNCHANGED <<log, expensesType, phase, now>>

\* handleFilterChange(e): the change event of the dropdown.
HandleFilterChange ==
    \E option \in FilterOptions \ {currentFilter} :
        /\ phase = "ready"
        /\ events' = events + 1
        /\ LET s == setFilter(State, option)
           IN  /\ SetState(s)
               /\ renderUI(s)
        /\ last' = Called("handleFilterChange", option, FALSE, Undefined)
        /\ UNCHANGED <<log, expensesType, phase, now>>

\* The interval timer that is due fires. All timers have the same period,
\* so they fire in turn: the one that fired is due again after all others.
Tick ==
    /\ timers # << >>
    /\ LET run == Callback(Head(timers))
       IN  /\ totalAmount' = run.text
           /\ timers' = IF run.cleared THEN Tail(timers)
                        ELSE Append(Tail(timers), run.timer)
    /\ last' = Called("tick", Undefined, FALSE, Undefined)
    /\ UNCHANGED <<expenses, currentFilter, localStorage, log, expensesType,
                   phase, expenseCount, expensesList, now, events>>

\* The page with its timers firing between the events.
NextUI ==
    \/ InitializeApp
    \/ events < MaxAnimatedEvents /\ HandleAddExpense
    \/ events < MaxAnimatedEvents /\ HandleDeleteExpense
    \/ events < MaxAnimatedEvents /\ HandleFilterChange
    \/ Tick

SpecUI == InitUI /\ [][NextUI]_vars

\* The events of a page that follow one another before a timer is due
\* (within the 16 ms of the interval).
NextForm ==
    \/ InitializeApp
    \/ events < MaxEvents /\ HandleAddExpense
    \/ events < MaxEvents /\ HandleDeleteExpense
    \/ events < MaxEvents /\ HandleFilterChange

SpecForm == InitUI /\ [][NextForm]_vars

\* The event loop runs what is due: the load handler and the timers.
SpecUIFair == SpecUI /\ WF_vars(InitializeApp) /\ WF_vars(Tick)

(* ----------------------- reference definitions ------------------------- *)

\* Indices of es visible under filter f.
VisibleIdx(es, f) ==
    {i \in 1 .. Len(es) : f = "All" \/ es[i].category = f}

\* The elements of es at the indices in idx, in increasing index order.
SubSeqAt(es, idx) ==
    [k \in 1 .. Cardinality(idx) |->
        es[CHOOSE i \in idx : Cardinality({j \in idx : j <= i}) = k]]

RECURSIVE SumAt(_, _)
\* Sum of amount over the indices in idx.
SumAt(es, idx) ==
    IF idx = {} THEN 0
    ELSE LET i == CHOOSE j \in idx : TRUE
         IN  es[i].amount + SumAt(es, idx \ {i})

\* Index i of the log is an add that no later call removed.
Survives(i) ==
    /\ log[i].op = "add"
    /\ \A j \in (i + 1) .. Len(log) :
          ~(log[j].op = "remove" /\ log[j].id = log[i].id)

Replayed ==
    LET kept == SubSeqAt(log, {i \in 1 .. Len(log) : Survives(i)})
    IN  [k \in 1 .. Len(kept) |-> kept[k].expense]

IsMutation(op) == op \in {"addExpense", "removeExpense"}

(* -------------------------------- C1 ------------------------------------ *)

\* C1: after any sequence of addExpense / removeExpense calls on an
\* initialized ledger, expenses holds exactly the added expenses that no
\* later call removed, in insertion order: none lost, reordered or
\* duplicated, and no removed one surviving.
C1_ReplayOfAddsAndRemoves == expenses = Replayed

\* add, add, remove of the first one's id: the second one is what is left.
C1_Witness ==
    /\ Len(log) = 3
    /\ log[1].op = "add" /\ log[2].op = "add" /\ log[3].op = "remove"
    /\ log[3].id = log[1].id /\ log[2].id # log[1].id
    /\ expenses = <<log[2].expense>>

(* -------------------------------- C2 ------------------------------------ *)

InvalidExpense(e) == e.amount <= 0 \/ e.category \notin Categories

\* C2: state.addExpense called with amount <= 0 or with a category outside
\* the enumeration leaves expenses and the storage slot unchanged and
\* signals InvalidInput to its caller.
C2_InvalidAddRejected ==
    [][ (last'.op = "addExpense" /\ InvalidExpense(last'.arg))
          => /\ expenses' = expenses
             /\ localStorage' = localStorage
             /\ last'.thrown = "InvalidInput" ]_vars

(* -------------------------------- C3 ------------------------------------ *)

\* What an add / remove call leaves in memory, whatever the write did.
InMemoryAfter(es, call) ==
    IF call.op = "addExpense"
    THEN es \o <<call.arg>>
    ELSE SubSeqAt(es, {i \in 1 .. Len(es) : es[i].id # call.arg})

\* The slot does not hold the serialization of the in-memory expenses.
Stale == localStorage # Item(JSONstringify(expenses))

\* C3: when the medium rejects the write of addExpense / removeExpense, the
\* call still returns normally, expenses is what it would be had the write
\* succeeded, the slot keeps its old content, and the queries made
\* afterwards answer from the in-memory expenses.
C3_WriteFailureNonFatal ==
    [][ /\ (IsMutation(last'.op) /\ ~last'.wrote)
            => /\ last'.thrown = "none"
               /\ expenses' = InMemoryAfter(expenses, last')
               /\ currentFilter' = currentFilter
               /\ localStorage' = localStorage
        /\ (last'.op = "getFilteredExpenses" /\ Stale)
            => last'.ret = SubSeqAt(expenses, VisibleIdx(expenses, currentFilter))
        /\ (last'.op = "getTotal" /\ Stale)
            => last'.ret = SumAt(expenses, VisibleIdx(expenses, currentFilter))
      ]_vars

\* A total asked for after an add whose write was rejected: it counts the
\* expense the slot does not hold.
C3_Witness ==
    /\ last.op = "getTotal" /\ last.ret = 80
    /\ Len(expenses) = 2
    /\ localStorage = Item(JSONstringify(SubSeq(expenses, 1, 1)))

(* -------------------------------- C4 ------------------------------------ *)

\* This step is removeExpense(id) called right after removeExpense(id).
SecondRemove ==
    /\ last.op = "removeExpense" /\ last'.op = "removeExpense"
    /\ last'.arg = last.arg

\* This step is removeExpense(id) for an id no entry has.
RemoveOfAbsent ==
    /\ last'.op = "removeExpense"
    /\ \A i \in 1 .. Len(expenses) : expenses[i].id # last'.arg

\* C4 as stated: removeExpense(id) called a second time leaves expenses,
\* the filter and the storage slot as the first call left them; called with
\* an id no entry has, it leaves expenses unchanged and raises nothing.
C4_RemoveTwiceSameState ==
    [][ /\ SecondRemove
            => /\ expenses' = expenses
               /\ currentFilter' = currentFilter
               /\ localStorage' = localStorage
        /\ RemoveOfAbsent
            => (expenses' = expenses /\ last'.thrown = "none") ]_vars

\* C4 amended: the second call leaves expenses and the filter as the first
\* call left them; the slot too, except when the first call's write was
\* rejected and the second's accepted, where the slot becomes the
\* serialization of those same expenses. Called with an id no entry has,
\* removeExpense leaves expenses unchanged and raises nothing.
C4_RemoveIdempotentInMemory ==
    [][ /\ SecondRemove
            => /\ expenses' = expenses
               /\ currentFilter' = currentFilter
               /\ (last.wrote \/ ~last'.wrote)
                     => localStorage' = localStorage
               /\ (~last.wrote /\ last'.wrote)
                     => localStorage' = Item(JSONstringify(expenses))
        /\ RemoveOfAbsent
            => (expenses' = expenses /\ last'.thrown = "none") ]_vars

\* add, then the same id removed twice, the second write landing.
C4_Witness ==
    /\ Len(log) = 3
    /\ log[1].op = "add" /\ log[2].op = "remove" /\ log[3].op = "remove"
    /\ log[2].id = log[1].id /\ log[3].id = log[1].id
    /\ last.op = "removeExpense" /\ last.wrote
    /\ expenses = << >>
    /\ localStorage = Item(JSONstringify(<< >>))

(* -------------------------------- C5 ------------------------------------ *)

\* C5: saving the expenses to the slot and loading the slot gives the
\* expenses back: same order, same id, amount, category and timestamp.
C5_SaveLoadRoundTrip ==
    loadFromStorage(saveToStorage(State, TRUE)) = expenses

\* A page load that read back two different expenses a write had stored.
C5_Witness ==
    /\ last.op = "init"
    /\ Len(expenses) = 2 /\ expenses[1] # expenses[2]
    /\ expenses[1].timestamp # expenses[2].timestamp
    /\ localStorage = Item(JSONstringify(expenses))

(* -------------------------------- C6 ------------------------------------ *)

\* C6: getTotal() is the sum of amount over all expenses under filter
\* "All", the sum over exactly the expenses of category C under filter C,
\* and 0 for an empty ledger.
C6_TotalOfVisible ==
    /\ getTotal(State) = SumAt(expenses, VisibleIdx(expenses, currentFilter))
    /\ last.op = "getTotal"
          => /\ last.ret = SumAt(expenses, VisibleIdx(expenses, currentFilter))
             /\ expenses = << >> => last.ret = 0

\* 50 Food and 30 Travel, filter Food: the total is 50.
C6_Witness ==
    /\ last.op = "getTotal" /\ last.ret = 50
    /\ currentFilter = "Food"
    /\ Len(expenses) = 2
    /\ expenses[1].amount = 50 /\ expenses[1].category = "Food"
    /\ expenses[2].amount = 30 /\ expenses[2].category = "Travel"

(* -------------------------------- C7 ------------------------------------ *)

\* C7: getFilteredExpenses() returns exactly the expenses for which the
\* filter is "All" or equals their category, in insertion order, and
\* changes neither expenses, nor the filter, nor the storage slot.
C7_VisibleExpensesReadOnly ==
    [][ last'.op = "getFilteredExpenses"
          => /\ last'.ret =
                   SubSeqAt(expenses, VisibleIdx(expenses, currentFilter))
             /\ expenses' = expenses
             /\ currentFilter' = currentFilter
             /\ localStorage' = localStorage ]_vars

\* Three expenses, the middle one hidden by the filter.
C7_Witness ==
    /\ last.op = "getFilteredExpenses"
    /\ currentFilter = "Food"
    /\ Len(expenses) = 3
    /\ expenses[1].category = "Food" /\ expenses[2].category = "Travel"
    /\ expenses[3].category = "Food" /\ expenses[1] # expenses[3]
    /\ last.ret = <<expenses[1], expenses[3]>>

(* -------------------------------- C8 ------------------------------------ *)

CategoriesPresent == {expenses[i].category : i \in 1 .. Len(expenses)}

IdxOfCategory(c) == {i \in 1 .. Len(expenses) : expenses[i].category = c}

StatsAreOfAllExpenses(stats) ==
    /\ DOMAIN stats = CategoriesPresent
    /\ \A c \in CategoriesPresent :
          /\ stats[c].count = Cardinality(IdxOfCategory(c))
          /\ stats[c].total = SumAt(expenses, IdxOfCategory(c))

\* C8: getCategoryStats() gives, for every category with an entry, the
\* count and the amount sum of all expenses of the category, and the same
\* result under every value of the filter.
C8_CategoryStatsIgnoreFilter ==
    /\ \A f \in FilterInputs :
          StatsAreOfAllExpenses(getCategoryStats(setFilter(State, f)))
    /\ last.op = "getCategoryStats" => StatsAreOfAllExpenses(last.ret)

\* Two Food expenses and a Travel one, asked under filter Food.
C8_Witness ==
    /\ last.op = "getCategoryStats"
    /\ currentFilter = "Food"
    /\ CategoriesPresent = {"Food", "Travel"}
    /\ last.ret["Food"] = [count |-> 2, total |-> 100]
    /\ last.ret["Travel"] = [count |-> 1, total |-> 30]

(* -------------------------------- C9 ------------------------------------ *)

\* C9: setFilter changes the filter only: expenses and the storage slot
\* are after the call what they were before it.
C9_SetFilterFrame ==
    [][ last'.op = "setFilter"
          => /\ currentFilter' = last'.arg
             /\ expenses' = expenses
             /\ localStorage' = localStorage ]_vars

\* A filter set while the slot lags behind the in-memory expenses.
C9_Witness ==
    /\ last.op = "setFilter" /\ currentFilter = "Food"
    /\ expenses # << >>
    /\ Stale

(* -------------------------------- C10 ----------------------------------- *)

\* C10: setFilter called with a value that is neither "All" nor a
\* recognized category fails with InvalidInput and leaves the filter
\* unchanged, so the filter is always "All" or a recognized category.
C10_InvalidFilterRejected ==
    [][ /\ (last'.op = "setFilter" /\ last'.arg \notin {"All"} \cup Categories)
            => (last'.thrown = "InvalidInput" /\ currentFilter' = currentFilter)
        /\ currentFilter' \in {"All"} \cup Categories ]_vars

(* -------------------------------- C11 ----------------------------------- *)

\* What reading the slot back gives: [ok, value] of the text it holds.
SlotContent(slot) ==
    IF slot.present THEN JSONparse(slot.text)
    ELSE [ok |-> FALSE, value |-> << >>]

\* C11: after an addExpense / removeExpense whose write succeeds, the slot
\* holds the serialization of the full in-memory expenses, whatever the
\* filter is; expenses the filter hides are not dropped from it.
C11_SlotHoldsAllExpenses ==
    [][ (IsMutation(last'.op) /\ last'.wrote)
          => /\ localStorage' = Item(JSONstringify(expenses'))
             /\ SlotContent(localStorage').ok
             /\ SlotContent(localStorage').value = expenses' ]_vars

\* An add written under filter Food while a Travel expense is hidden.
C11_Witness ==
    /\ last.op = "addExpense" /\ last.wrote
    /\ currentFilter = "Food"
    /\ Len(expenses) = 2
    /\ expenses[1].category = "Travel" /\ expenses[2].category = "Food"
    /\ SlotContent(localStorage).value = expenses

(* -------------------------------- C12 ----------------------------------- *)

\* C12: initialization never fails and leaves expenses a sequence: the
\* empty one when the slot was never written or holds a text that is no
\* serialized array of expenses; the operations of the page work afterwards.
C12_InitializeAlwaysYieldsSequence ==
    [][ last'.op = "initializeApp"
          => /\ expensesType' = "array"
             /\ ~SlotContent(localStorage).ok => expenses' = << >>
             /\ last'.thrown = "none"
             /\ phase' = "ready" ]_vars

(* -------------------------------- C13 ----------------------------------- *)

\* C13: after initialization and any sequence of UI add / delete events, no
\* two entries of expenses have the same id.
C13_IdsUnique ==
    \A i \in 1 .. Len(expenses), j \in 1 .. Len(expenses) :
        i # j => expenses[i].id # expenses[j].id

(* -------------------------------- C14 ----------------------------------- *)

\* C14: a tick of an interval timer changes neither expenses, nor the
\* filter, nor the storage slot, and works from what its timer was started
\* with: it writes its own next value or its own end, and keeps the end and
\* the increment it was given, whatever the ledger's total has become.
C14_TicksLeaveLedgerAlone ==
    [][ last'.op = "tick"
          => /\ expenses' = expenses
             /\ currentFilter' = currentFilter
             /\ localStorage' = localStorage
             /\ expensesType' = expensesType
             /\ LET t == Head(timers)
                IN  /\ totalAmount' \in {toFixed2(t.current + t.increment),
                                         toFixed2(t.end)}
                    /\ timers' # Tail(timers)
                         => /\ timers'[Len(timers')].end = t.end
                            /\ timers'[Len(timers')].increment = t.increment
      ]_vars

\* A tick, after an add, of a timer started before it: its end is the total
\* of then, not of now.
C14_Witness ==
    /\ last.op = "tick"
    /\ events = 1 /\ expenses # << >>
    /\ timers # << >>
    /\ timers[Len(timers)].end # Units(getTotal(State))
    /\ timers[Len(timers)].increment # 0

(* -------------------------------- C15 ----------------------------------- *)

\* C15: after the last UI event the displayed total becomes getTotal() with
\* two fraction digits and stays so, however the ticks of the timers that
\* the updateTotal calls started interleave.
C15_DisplayedTotalSettles ==
    <>[](phase = "ready" => totalAmount = getTotal(State) * 100)

(* -------------------------------- C16 ----------------------------------- *)

\* C16: every interval timer animateValue starts is cleared in the end,
\* also one started with start = end.
C16_EveryTimerCleared == <>[](timers = << >>)

(* -------------------------------- C17 ----------------------------------- *)

\* This step is an add / remove whose write landed.
WriteLands == IsMutation(last'.op) /\ last'.wrote

\* C17: the slot changes only by a write that lands, which makes it the
\* serialization of the expenses as they then are (so it always holds the
\* expenses of the most recent successful write, or is unwritten); in
\* particular the first write landing after a rejected one stores the full
\* current expenses, and a page load that follows gives them all back.
C17_SlotIsLastSuccessfulWrite ==
    [][ /\ ~WriteLands => localStorage' = localStorage
        /\ WriteLands => localStorage' = Item(JSONstringify(expenses'))
        /\ (WriteLands /\ IsMutation(last.op) /\ ~last.wrote)
              => SlotContent(localStorage').value = expenses'
        /\ last'.op = "init"
              => /\ expenses' = SlotContent(localStorage).value
                 /\ ~Stale => expenses' = expenses ]_vars

\* A page load that gave back two expenses the slot held.
C17_Witness ==
    /\ last.op = "init"
    /\ Len(expenses) = 2 /\ expenses[1].id # expenses[2].id
    /\ ~Stale

====
